---- MODULE Spec2Model ----
(***************************************************************************)
(* Model of backend/scripts/extract_doi.py: main() and                     *)
(* extract_doi_from_pdf(pdf_path).                                         *)
(*                                                                         *)
(* A text is a sequence of one-character strings.  The document is read    *)
(* lazily: fitz.open fixes the page count, and the text of a page is       *)
(* chosen when get_text is called on it (each page is read at most once,   *)
(* so this is the same as a document fixed beforehand).                    *)
(***************************************************************************)
EXTENDS Integers, Sequences, FiniteSets

VARIABLES
  argc,            \* len(sys.argv)
  pc,              \* position in main / extract_doi_from_pdf
  exists,          \* what os.path.exists answered: "unasked", "yes", "no"
  handle,          \* the fitz document: "none", "open", "closed"
  npages,          \* len(doc)
  max_pages,       \* min(3, len(doc))
  page_num,        \* loop variable of the page loop
  loaded,          \* page numbers passed to doc.load_page, in call order
  extracted,       \* what page.get_text() returned, in call order
  text_to_search,  \* the accumulated text
  pattern,         \* index in doi_patterns of the pattern being tried (1-based)
  matches,         \* re.findall's result for that pattern
  doi,             \* extract_doi_from_pdf's return value
  stdout,          \* characters written to standard output
  stderr,          \* diagnostics written to standard error, by kind
  exitCode         \* argument of sys.exit, -1 while the process runs

vars == <<argc, pc, exists, handle, npages, max_pages, page_num, loaded,
          extracted, text_to_search, pattern, matches, doi, stdout, stderr,
          exitCode>>

---------------------------------------------------------------------------
(* Bounds of the model *)

\* largest page count of a document
MaxPages == 4

\* largest len(sys.argv)
MaxArgc == 3

---------------------------------------------------------------------------
(* Characters *)

Digits == {"0", "1", "2", "3", "4", "5", "6", "7", "8", "9"}

Letters == {"a", "b", "c", "d", "i", "o", "x", "D", "I", "O"}

\* \w : alphanumerics and the underscore
WordChars == Digits \cup Letters \cup {"_"}

\* \s
Whitespace == {" ", "\n"}

Alphabet == WordChars \cup Whitespace \cup
            {".", "/", ":", ",", ";", ")", "]", "<", ">", "\"", "-"}

\* the class [^\s"<>\]\)]
SuffixChars == Alphabet \ (Whitespace \cup {"\"", "<", ">", "]", ")"})

\* the argument of rstrip
StripChars == {".", ",", ";", ")", "]"}

\* \d{4,9}
MinDigits == 4

MaxDigits == 9

\* re.IGNORECASE: the case folding of a character
Lower(c) == CASE c = "D" -> "d" [] c = "I" -> "i" [] c = "O" -> "o"
              [] OTHER -> c

\* the character at position i of t, "" outside of t
CharAt(t, i) == IF i >= 1 /\ i <= Len(t) THEN t[i] ELSE ""

\* length of the longest run of characters of S that starts at position i
RECURSIVE RunLen(_, _, _)
RunLen(t, i, S) ==
  IF i >= 1 /\ i <= Len(t) /\ t[i] \in S THEN 1 + RunLen(t, i + 1, S) ELSE 0

Max(S) == CHOOSE x \in S : \A y \in S : y <= x

Min(S) == CHOOSE x \in S : \A y \in S : x <= y

---------------------------------------------------------------------------
(* Inputs *)

\* texts page.get_text() may return
PageTexts == {
  << >>,
  <<"1", "0", ".", "1", "0", "0", "0", "/", "a">>,
  <<"1", "0", ".", "1", "0", "0", "0", "/">>,
  <<"1", "0", ".", "2", "0", "0", "0", "/", "b", "-", "c">>,
  <<"1", "0", ".", "1", "2", "3", "/", "b", " ">>,
  <<"1", "0", ".", "1", "2", "3", "4", "5", "6", "7", "8", "9", "/", "c">>,
  <<"1", "0", ".", "1", "2", "3", "4", "5", "6", "7", "8", "9", "0", "/", "c",
    " ">>,
  <<"d", "o", "i", ":">>,
  <<"D", "O", "I", ":", " ">>,
  <<" ">>,
  <<"\n">>,
  <<".">>,
  <<",", ";">>,
  <<")">>,
  <<"]">>,
  <<"<">>,
  <<"x">>
}

---------------------------------------------------------------------------
(* The regular expressions *)

\* mutant: (?<!\S) in place of \b, the token must follow whitespace or
\* start the text
WordBoundaryStrict(t, i) ==
  i = 1 \/ CharAt(t, i - 1) \in Whitespace

\* \b at position i: exactly one of the characters around it is a word character
WordBoundary(t, i) ==
  (CharAt(t, i - 1) \in WordChars) # (CharAt(t, i) \in WordChars)

\* 10\.\d{4,9}/[S]+ matched at position i, for a character class S: the
\* position of the match's last character, 0 when there is no match.  Both
\* quantifiers are greedy.
TokenEnd(t, i, S) ==
  IF CharAt(t, i) = "1" /\ CharAt(t, i + 1) = "0" /\ CharAt(t, i + 2) = "."
  THEN LET ks == {k \in MinDigits..MaxDigits :
                    /\ RunLen(t, i + 3, Digits) >= k
                    /\ CharAt(t, i + 3 + k) = "/"
                    /\ RunLen(t, i + 4 + k, S) >= 1}
       IN IF ks = {} THEN 0
          ELSE i + 3 + Max(ks) + RunLen(t, i + 4 + Max(ks), S)
  ELSE 0

\* mutant: the suffix quantifier is lazy ([...]+?), one character is taken
BodyEndLazy(t, i) ==
  IF TokenEnd(t, i, SuffixChars) = 0 THEN 0
  ELSE i + 4 + RunLen(t, i + 3, Digits)

\* mutant: \d+ in place of \d{4,9}
BodyEndAnyDigits(t, i) ==
  IF CharAt(t, i) = "1" /\ CharAt(t, i + 1) = "0" /\ CharAt(t, i + 2) = "."
  THEN LET k == RunLen(t, i + 3, Digits)
       IN IF k >= 1 /\ CharAt(t, i + 3 + k) = "/"
             /\ RunLen(t, i + 4 + k, SuffixChars) >= 1
          THEN i + 3 + k + RunLen(t, i + 4 + k, SuffixChars)
          ELSE 0
  ELSE 0

\* 10\.\d{4,9}/[^\s"<>\]\)]+ matched at position i
BodyEnd(t, i) == TokenEnd(t, i, SuffixChars)

\* the three patterns, in the order of the list: whether the pattern starts
\* with \b, and the literal before \s* (empty: neither literal nor \s*)
doi_patterns == <<
  [boundary |-> TRUE,  prefix |-> << >>],
  [boundary |-> FALSE, prefix |-> <<"d", "o", "i", ":">>],
  [boundary |-> FALSE, prefix |-> <<"D", "O", "I", ":">>] >>

\* the literal lit matched at position i under re.IGNORECASE
LiteralAt(t, i, lit) ==
  \A j \in 1..Len(lit) : Lower(CharAt(t, i + j - 1)) = Lower(lit[j])

\* pattern pat matched at position i: the position of the match's last
\* character, 0 when there is no match
MatchEnd(pat, t, i) ==
  IF pat.prefix = << >>
  THEN IF pat.boundary => WordBoundary(t, i) THEN BodyEnd(t, i) ELSE 0
  ELSE IF LiteralAt(t, i, pat.prefix)
       THEN LET after == i + Len(pat.prefix)
                js == {j \in 0..RunLen(t, after, Whitespace) :
                         BodyEnd(t, after + j) # 0}
            IN IF js = {} THEN 0 ELSE BodyEnd(t, after + Max(js))
       ELSE 0

\* re.findall(pat, t, re.IGNORECASE) from position pos on: the matches from
\* left to right, none overlapping an earlier one
RECURSIVE FindAllFrom(_, _, _)
FindAllFrom(pat, t, pos) ==
  IF pos > Len(t) THEN << >>
  ELSE LET e == MatchEnd(pat, t, pos)
       IN IF e # 0
          THEN <<SubSeq(t, pos, e)>> \o FindAllFrom(pat, t, e + 1)
          ELSE FindAllFrom(pat, t, pos + 1)

\* mutant: the matches from right to left, so that matches[0] is the last
FindAllReversed(pat, t) ==
  LET ms == FindAllFrom(pat, t, 1)
  IN [k \in 1..Len(ms) |-> ms[Len(ms) + 1 - k]]

FindAll(pat, t) == FindAllFrom(pat, t, 1)

\* mutant: s[4:], the first four characters are dropped whatever they are
ReSubPrefixSlice(s) == SubSeq(s, 5, Len(s))

\* re.sub(r'^(doi:|DOI:)\s*', '', s, flags=re.IGNORECASE)
ReSubPrefix(s) ==
  IF LiteralAt(s, 1, <<"d", "o", "i", ":">>)
  THEN SubSeq(s, 5 + RunLen(s, 5, Whitespace), Len(s))
  ELSE s

\* mutant: only the last character is removed when it is in the set
RStripOne(s) ==
  IF s # << >> /\ s[Len(s)] \in StripChars
  THEN SubSeq(s, 1, Len(s) - 1)
  ELSE s

\* s.rstrip('.,;)]')
RECURSIVE RStrip(_)
RStrip(s) ==
  IF s # << >> /\ s[Len(s)] \in StripChars
  THEN RStrip(SubSeq(s, 1, Len(s) - 1))
  ELSE s

\* the cleaning of matches[0]
Normalize(m) == RStrip(ReSubPrefix(m))

---------------------------------------------------------------------------
(* Return values and output *)

None == [isNone |-> TRUE, str |-> << >>]

Str(s) == [isNone |-> FALSE, str |-> s]

\* "if doi:" : neither None nor the empty string
Truthy(v) == ~v.isNone /\ v.str # << >>

\* print(s): the characters of s and a newline
PrintLine(out, s) == out \o s \o <<"\n">>

---------------------------------------------------------------------------
(* The program *)

Init ==
  /\ argc \in 1..MaxArgc
  /\ pc = "main"
  /\ exists = "unasked"
  /\ handle = "none"
  /\ npages = 0
  /\ max_pages = 0
  /\ page_num = 0
  /\ loaded = << >>
  /\ extracted = << >>
  /\ text_to_search = << >>
  /\ pattern = 0
  /\ matches = << >>
  /\ doi = None
  /\ stdout = << >>
  /\ stderr = << >>
  /\ exitCode = -1

\* main: len(sys.argv) != 2
MainUsage ==
  /\ pc = "main"
  /\ argc # 2
  /\ stderr' = Append(stderr, "usage")
  /\ exitCode' = 1
  /\ pc' = "done"
  /\ UNCHANGED <<argc, exists, handle, npages, max_pages, page_num, loaded,
                 extracted, text_to_search, pattern, matches, doi, stdout>>

\* main: the call of extract_doi_from_pdf(sys.argv[1])
MainCall ==
  /\ pc = "main"
  /\ argc = 2
  /\ pc' = "exists"
  /\ UNCHANGED <<argc, exists, handle, npages, max_pages, page_num, loaded,
                 extracted, text_to_search, pattern, matches, doi, stdout,
                 stderr, exitCode>>

\* os.path.exists(pdf_path) is false
PathMissing ==
  /\ pc = "exists"
  /\ exists' = "no"
  /\ stderr' = Append(stderr, "missing")
  /\ doi' = None
  /\ pc' = "return"
  /\ UNCHANGED <<argc, handle, npages, max_pages, page_num, loaded,
                 extracted, text_to_search, pattern, matches, stdout,
                 exitCode>>

\* os.path.exists(pdf_path) is true
PathExists ==
  /\ pc = "exists"
  /\ exists' = "yes"
  /\ pc' = "open"
  /\ UNCHANGED <<argc, handle, npages, max_pages, page_num, loaded,
                 extracted, text_to_search, pattern, matches, doi, stdout,
                 stderr, exitCode>>

\* the except clause: the diagnostic, and None is returned
Except ==
  /\ stderr' = Append(stderr, "exception")
  /\ doi' = None
  /\ pc' = "return"

\* fitz.open(pdf_path) raises
OpenFails ==
  /\ pc = "open"
  /\ Except
  /\ UNCHANGED <<argc, exists, handle, npages, max_pages, page_num, loaded,
                 extracted, text_to_search, pattern, matches, stdout,
                 exitCode>>

\* the 3 of min(3, len(doc))
MaxScanned == 3

\* mutant: max_pages = len(doc), the min is forgotten
OpenAllPages ==
  /\ pc = "open"
  /\ \E n \in 0..MaxPages :
       /\ npages' = n
       /\ max_pages' = n
  /\ handle' = "open"
  /\ text_to_search' = << >>
  /\ page_num' = 0
  /\ pc' = "pages"
  /\ UNCHANGED <<argc, exists, loaded, extracted, pattern, matches, doi,
                 stdout, stderr, exitCode>>

\* fitz.open(pdf_path) returns a document of n pages; text_to_search = "",
\* max_pages = min(3, len(doc)), and the page loop starts
Open ==
  /\ pc = "open"
  /\ \E n \in 0..MaxPages :
       /\ npages' = n
       /\ max_pages' = Min({MaxScanned, n})
  /\ handle' = "open"
  /\ text_to_search' = << >>
  /\ page_num' = 0
  /\ pc' = "pages"
  /\ UNCHANGED <<argc, exists, loaded, extracted, pattern, matches, doi,
                 stdout, stderr, exitCode>>

\* one turn of the page loop: load_page and get_text succeed
LoadPage ==
  /\ pc = "pages"
  /\ page_num < max_pages
  /\ \E txt \in PageTexts :
       /\ extracted' = Append(extracted, txt)
       /\ text_to_search' = text_to_search \o txt
  /\ loaded' = Append(loaded, page_num)
  /\ page_num' = page_num + 1
  /\ UNCHANGED <<argc, pc, exists, handle, npages, max_pages, pattern,
                 matches, doi, stdout, stderr, exitCode>>

\* one turn of the page loop: doc.load_page(page_num) raises
LoadPageFails ==
  /\ pc = "pages"
  /\ page_num < max_pages
  /\ Except
  /\ UNCHANGED <<argc, exists, handle, npages, max_pages, page_num, loaded,
                 extracted, text_to_search, pattern, matches, stdout,
                 exitCode>>

\* one turn of the page loop: page.get_text() raises
GetTextFails ==
  /\ pc = "pages"
  /\ page_num < max_pages
  /\ loaded' = Append(loaded, page_num)
  /\ Except
  /\ UNCHANGED <<argc, exists, handle, npages, max_pages, page_num,
                 extracted, text_to_search, pattern, matches, stdout,
                 exitCode>>

\* the page loop is over: doc.close(), and the pattern loop starts
Close ==
  /\ pc = "pages"
  /\ page_num >= max_pages
  /\ handle' = "closed"
  /\ pattern' = 1
  /\ pc' = "patterns"
  /\ UNCHANGED <<argc, exists, npages, max_pages, page_num, loaded,
                 extracted, text_to_search, matches, doi, stdout, stderr,
                 exitCode>>

\* one turn of the pattern loop
TryPattern ==
  /\ pc = "patterns"
  /\ pattern <= Len(doi_patterns)
  /\ LET found == FindAll(doi_patterns[pattern], text_to_search)
     IN /\ matches' = found
        /\ IF found # << >>
           THEN /\ doi' = Str(Normalize(found[1]))
                /\ stderr' = Append(stderr, "found")
                /\ pc' = "return"
                /\ UNCHANGED pattern
           ELSE /\ pattern' = pattern + 1
                /\ UNCHANGED <<doi, stderr, pc>>
  /\ UNCHANGED <<argc, exists, handle, npages, max_pages, page_num, loaded,
                 extracted, text_to_search, stdout, exitCode>>

\* mutant: the notice is printed without file=sys.stderr
NoDoiOnStdout ==
  /\ pc = "patterns"
  /\ pattern > Len(doi_patterns)
  /\ stdout' = PrintLine(stdout, <<"x">>)
  /\ doi' = None
  /\ pc' = "return"
  /\ UNCHANGED <<argc, exists, handle, npages, max_pages, page_num, loaded,
                 extracted, text_to_search, pattern, matches, stderr,
                 exitCode>>

\* the pattern loop is over without a match
NoDoi ==
  /\ pc = "patterns"
  /\ pattern > Len(doi_patterns)
  /\ stderr' = Append(stderr, "nodoi")
  /\ doi' = None
  /\ pc' = "return"
  /\ UNCHANGED <<argc, exists, handle, npages, max_pages, page_num, loaded,
                 extracted, text_to_search, pattern, matches, stdout,
                 exitCode>>

\* main, after the call: print(doi) and sys.exit(0), or sys.exit(1)
MainExit ==
  /\ pc = "return"
  /\ IF Truthy(doi)
     THEN /\ stdout' = PrintLine(stdout, doi.str)
          /\ exitCode' = 0
     ELSE /\ exitCode' = 1
          /\ UNCHANGED stdout
  /\ pc' = "done"
  /\ UNCHANGED <<argc, exists, handle, npages, max_pages, page_num, loaded,
                 extracted, text_to_search, pattern, matches, doi, stderr>>

Next ==
  \/ MainUsage
  \/ MainCall
  \/ PathMissing
  \/ PathExists
  \/ OpenFails
  \/ Open
  \/ LoadPage
  \/ LoadPageFails
  \/ GetTextFails
  \/ Close
  \/ TryPattern
  \/ NoDoi
  \/ MainExit

Spec == Init /\ [][Next]_vars

---------------------------------------------------------------------------
(* The properties *)

\* extract_doi_from_pdf went through the pattern loop and main has exited
ScanDone == pc = "done" /\ handle = "closed"

\* pat matches somewhere in t
HasMatch(pat, t) == \E i \in 1..Len(t) : MatchEnd(pat, t, i) # 0

\* the match of pat in t that starts furthest to the left
LeftmostMatch(pat, t) ==
  LET i == Min({j \in 1..Len(t) : MatchEnd(pat, t, j) # 0})
  IN SubSeq(t, i, MatchEnd(pat, t, i))

\* the patterns, by index, that match somewhere in the scanned text
Hits == {p \in 1..Len(doi_patterns) :
           HasMatch(doi_patterns[p], text_to_search)}

\* s starts with doi: in any letter case
HasDoiPrefix(s) == Len(s) >= 4 /\ LiteralAt(s, 1, <<"d", "o", "i", ":">>)

\* s ends with a character of the strip set
EndsWithStripChar(s) == s # << >> /\ s[Len(s)] \in StripChars

\* r is s without a trailing run of strip-set characters, and the run is whole
IsRightStripOf(r, s) ==
  /\ Len(r) <= Len(s)
  /\ r = SubSeq(s, 1, Len(r))
  /\ \A j \in (Len(r) + 1)..Len(s) : s[j] \in StripChars
  /\ ~EndsWithStripChar(r)

\* s occurs in t as a contiguous substring
IsSubstring(s, t) ==
  \E i \in 1..(Len(t) + 1) :
     i + Len(s) - 1 <= Len(t) /\ SubSeq(t, i, i + Len(s) - 1) = s

RECURSIVE Concat(_)
Concat(ss) == IF ss = << >> THEN << >> ELSE Head(ss) \o Concat(Tail(ss))

\* C1: the process ends with exit code 0 exactly when a DOI was found, and
\* then standard output is the one line of the DOI; in every other case
\* (wrong argument count, missing path, an exception of fitz.open, load_page
\* or get_text, no pattern matching) it ends with exit code 1 and standard
\* output is empty.  Nothing is written to standard output before the end.
C1_ExitCodeAndStdout ==
  /\ pc # "done" => exitCode = -1 /\ stdout = << >>
  /\ pc = "done" =>
       LET found == handle = "closed" /\ Hits # {}
       IN /\ exitCode \in {0, 1}
          /\ (exitCode = 0) <=> found
          /\ found <=> ~doi.isNone
          /\ exitCode = 0 =>
               /\ stdout = doi.str \o <<"\n">>
               /\ \A j \in 1..Len(doi.str) : doi.str[j] # "\n"
          /\ exitCode = 1 => stdout = << >>
          /\ (\/ argc # 2
              \/ exists = "no"
              \/ \E j \in 1..Len(stderr) : stderr[j] = "exception"
              \/ (handle = "closed" /\ Hits = {})) => exitCode = 1

C1_Witness ==
  /\ pc = "done"
  /\ exitCode = 0
  /\ stdout = <<"1", "0", ".", "1", "0", "0", "0", "/", "a", "\n">>
  /\ Len(text_to_search) > 10

\* C2: in every terminal state reached after fitz.open succeeded the
\* document has been closed.
C2_HandleReleased ==
  (pc \in {"return", "done"} /\ handle # "none") => handle = "closed"

\* C3: the patterns are tried in the order P1, P2, P3; the first one with a
\* match decides, and the result is the normalization of its leftmost match;
\* NotFound is reported exactly when no pattern matches, as for the empty text.
C3_PriorityAndLeftmost ==
  ScanDone =>
    /\ doi.isNone <=> Hits = {}
    /\ Hits = {} => pattern = Len(doi_patterns) + 1
    /\ Hits # {} =>
         /\ pattern = Min(Hits)
         /\ doi = Str(Normalize(LeftmostMatch(doi_patterns[Min(Hits)],
                                               text_to_search)))
    /\ text_to_search = << >> => doi.isNone

C3_Witness ==
  /\ ScanDone
  /\ Len(matches) >= 2
  /\ matches[1] # matches[2]
  /\ doi = Str(Normalize(matches[1]))

\* C4 as stated: where the text holds a token 10.\d{4,9}/\S+ after a word
\* boundary, the result is the leftmost such token without its trailing
\* strip-set characters.
C4_NonSpaceToken ==
  ScanDone =>
    LET t == text_to_search
        at == {i \in 1..Len(t) :
                 WordBoundary(t, i) /\ TokenEnd(t, i, Alphabet \ Whitespace) # 0}
    IN at # {} =>
         /\ ~doi.isNone
         /\ IsRightStripOf(doi.str,
              SubSeq(t, Min(at), TokenEnd(t, Min(at), Alphabet \ Whitespace)))

\* C4 amended: where the text holds a token 10.\d{4,9}/ followed by a run of
\* characters other than whitespace, ", <, >, ] and ), after a word boundary,
\* the result is the leftmost such token, its suffix run taken whole, without
\* its trailing strip-set characters.
C4_SuffixClassToken ==
  ScanDone =>
    LET t == text_to_search
        at == {i \in 1..Len(t) :
                 /\ WordBoundary(t, i)
                 /\ CharAt(t, i) = "1"
                 /\ CharAt(t, i + 1) = "0"
                 /\ CharAt(t, i + 2) = "."
                 /\ \E k \in MinDigits..MaxDigits :
                      /\ \A j \in (i + 3)..(i + 2 + k) : CharAt(t, j) \in Digits
                      /\ CharAt(t, i + 3 + k) = "/"
                      /\ CharAt(t, i + 4 + k) \in SuffixChars}
    IN at # {} =>
         LET i == Min(at)
             slash == Min({j \in i..Len(t) : t[j] = "/"})
             last == Max({e \in (slash + 1)..Len(t) :
                            \A j \in (slash + 1)..e : t[j] \in SuffixChars})
         IN /\ ~doi.isNone
            /\ IsRightStripOf(doi.str, SubSeq(t, i, last))

C4_Witness ==
  /\ ScanDone
  /\ ~doi.isNone
  /\ extracted = << <<"1", "0", ".", "2", "0", "0", "0", "/", "b", "-", "c">>,
                    <<")">>, <<"x">> >>
  /\ doi.str = extracted[1]

\* C5: a returned DOI is 10. followed by 4 to 9 digits and /, has no leading
\* doi: in any letter case, and does not end with a strip-set character.
C5_ResultShape ==
  (ScanDone /\ ~doi.isNone) =>
    LET d == doi.str
    IN /\ CharAt(d, 1) = "1" /\ CharAt(d, 2) = "0" /\ CharAt(d, 3) = "."
       /\ \E k \in MinDigits..MaxDigits :
            /\ \A j \in 4..(3 + k) : CharAt(d, j) \in Digits
            /\ CharAt(d, 4 + k) = "/"
       /\ ~HasDoiPrefix(d)
       /\ ~EndsWithStripChar(d)

C5_Witness ==
  /\ ScanDone
  /\ ~doi.isNone
  /\ extracted[1] = <<"1", "0", ".", "1", "2", "3", "/", "b", " ">>
  /\ EndsWithStripChar(matches[1])

\* C6: the scanned text is the concatenation, in page order, of the texts of
\* pages 0 .. min(3, page count) - 1; no page of index 3 or more is loaded.
C6_PagesScanned ==
  /\ \A j \in 1..Len(loaded) : loaded[j] < MaxScanned /\ loaded[j] < npages
  /\ handle = "closed" =>
       /\ loaded = [j \in 1..Min({MaxScanned, npages}) |-> j - 1]
       /\ Len(extracted) = Len(loaded)
       /\ text_to_search = Concat(extracted)

C6_Witness ==
  /\ handle = "closed"
  /\ npages > MaxScanned
  /\ loaded = <<0, 1, 2>>
  /\ extracted[1] # << >>
  /\ extracted[2] # extracted[1]
  /\ extracted[3] # extracted[2]

\* C7: a returned DOI is a contiguous substring of the scanned text: the
\* chosen match without a leading doi: token and the whitespace after it, and
\* without a trailing run of strip-set characters.
C7_ContiguousSubstring ==
  (ScanDone /\ ~doi.isNone) =>
    LET m == matches[1]
        d == doi.str
    IN /\ IsSubstring(m, text_to_search)
       /\ IsSubstring(d, text_to_search)
       /\ \E a \in 0..Len(m) :
            /\ a + Len(d) <= Len(m)
            /\ d = SubSeq(m, a + 1, a + Len(d))
            /\ \A j \in (a + Len(d) + 1)..Len(m) : m[j] \in StripChars
            /\ a > 0 => /\ a >= 4
                        /\ HasDoiPrefix(m)
                        /\ \A j \in 5..a : m[j] \in Whitespace

C7_Witness ==
  /\ ScanDone
  /\ ~doi.isNone
  /\ Len(doi.str) < Len(matches[1])
  /\ Len(matches[1]) < Len(text_to_search)
  /\ text_to_search[1] # "1"

\* C8: normalization returns unchanged any string without a doi: prefix and
\* without a trailing strip-set character, and normalizing a match of any
\* pattern twice gives what normalizing it once gives.
C8_Idempotent ==
  ScanDone =>
    /\ \A i \in 1..Len(text_to_search) :
         \A j \in i..Len(text_to_search) :
            LET s == SubSeq(text_to_search, i, j)
            IN (~HasDoiPrefix(s) /\ ~EndsWithStripChar(s)) => Normalize(s) = s
    /\ \A p \in 1..Len(doi_patterns) :
         LET ms == FindAll(doi_patterns[p], text_to_search)
         IN \A k \in 1..Len(ms) :
              Normalize(Normalize(ms[k])) = Normalize(ms[k])
    /\ ~doi.isNone => Normalize(doi.str) = doi.str

C8_Witness ==
  /\ ScanDone
  /\ LET ms == FindAll(doi_patterns[2], text_to_search)
     IN /\ ms # << >>
        /\ HasDoiPrefix(ms[1])
        /\ Len(ms[1]) - Len(Normalize(ms[1])) >= 6

\* C9: a returned DOI has at least one character after its /, so that it is
\* a whole match of P1 and scanning it returns it again.
C9_NonEmptySuffix ==
  (ScanDone /\ ~doi.isNone) =>
    LET d == doi.str
    IN /\ \E j \in 1..(Len(d) - 1) : d[j] = "/"
       /\ MatchEnd(doi_patterns[1], d, 1) = Len(d)
       /\ Normalize(d) = d

\* C10: whenever P2 or P3 matches somewhere, P1 matches too; so the reported
\* DOI comes from P1, the loop never finds a match with P2 or P3, and the
\* prefix removal leaves the chosen match as it is.
C10_PrefixedPatternsShadowed ==
  /\ pattern > 1 => matches = << >>
  /\ ScanDone =>
       /\ (Hits \cap {2, 3}) # {} => 1 \in Hits
       /\ ~doi.isNone =>
            /\ pattern = 1
            /\ ReSubPrefix(matches[1]) = matches[1]
            /\ ~HasDoiPrefix(matches[1])

C10_Witness ==
  /\ ScanDone
  /\ Hits = {1, 2, 3}
  /\ pattern = 1
  /\ \E i \in 1..Len(text_to_search) :
       /\ MatchEnd(doi_patterns[2], text_to_search, i) # 0
       /\ text_to_search[i + 4] \in Whitespace
  /\ doi = Str(<<"1", "0", ".", "1", "0", "0", "0", "/", "a">>)

====
